---------------------------- MODULE Spec2Model ----------------------------
(***************************************************************************)
(* Model of class Synchronized (src/src/synchronized.ts): a FIFO queue of  *)
(* wrapped asynchronous works and the flag isRunning, drained one work at  *)
(* a time by processQueue.                                                 *)
(*                                                                         *)
(* JavaScript runs every synchronous stretch of code to completion, so an  *)
(* action of the model is one such stretch:                                *)
(*   ExecuteCall      one call of execute(), with everything it calls      *)
(*                    synchronously (processQueue, the wrapper up to its   *)
(*                    await, the first synchronous part of the work body); *)
(*   WorkSettles      the suspended work body resumes, finishes and its    *)
(*                    promise settles;                                     *)
(*   WrapperContinue  the continuation of the wrapper after its await:     *)
(*                    resolve/reject, then processQueue().                 *)
(* Further specifications add work bodies that never settle (SpecHang),    *)
(* that check and write a shared file (SpecFile), that call execute() on   *)
(* the instance that runs them (SpecNested), and a second instance         *)
(* (SpecTwo).                                                              *)
(* The k-th call of execute is item k.  The promise of item k is the one   *)
(* created at line 30, whose state the promise of the async function       *)
(* execute adopts.                                                         *)
(***************************************************************************)
EXTENDS Integers, Sequences, FiniteSets, TLC

\* Number of execute() calls the model explores.
MaxItems == 3

\* With two instances: the calls explored on this one and on the other.
MaxEach == 2
MaxOther == 1

Items == 1..MaxItems

\* How a submitted work behaves: "async" suspends at least once and settles
\* later; "throws" throws synchronously when called (a non-async function).
Kinds == {"async", "throws"}

\* Further work bodies: "hangs" suspends and never settles; "append" checks
\* whether the shared file exists, suspends, then creates it or appends its
\* number; "nest" calls execute() on the same instance in its first
\* synchronous part and goes on without the returned promise; "nestAwait"
\* does the same and awaits the returned promise before it settles.
HangKinds == {"async", "hangs"}
NestKinds == {"async", "nest", "nestAwait"}

\* State of a promise; the payload identifies the work that produced it.
Pending == <<"pending", 0>>
Resolved(v) == <<"resolved", v>>
Rejected(e) == <<"rejected", e>>

\* The value work i resolves with and the error it rejects with.
Val(i) == i
Err(i) == i

\* The synchronous stack a work body was called from: none yet, the
\* execute() call of item j, or the continuation of the wrapper of item j.
NoCtx == <<"none", 0>>
InExecute(j) == <<"execute", j>>
InWrapper(j) == <<"wrapper", j>>

VARIABLES
    queue,        \* this.queue: the wrappers not yet shifted, by item
    isRunning,    \* this.isRunning
    calls,        \* number of execute() calls made so far
    kind,         \* kind[i]: how the work of item i behaves
    invoked,      \* invoked[i]: times asyncFunction of item i was called
    inFlight,     \* items whose work body has started and not settled
    workResult,   \* workResult[i]: outcome of the work body of item i
    resumable,    \* items whose work settled, wrapper continuation pending
    promise,      \* promise[i]: state of the promise execute returned
    settles,      \* settles[i]: calls of resolve/reject of item i
    startOrder,   \* items in the order their work bodies began
    settleOrder,  \* items in the order resolve/reject was called
    starter,      \* starter[i]: the synchronous stack that called work i
    atCall,       \* atCall[i]: the instance as execute() of item i found it
    busy,         \* the shared flag of the work bodies (test execute.10)
    sawBusy,      \* items whose body found the shared flag set on entry
    settledAtShift, \* settledAtShift[i]: promises settled when i was shifted
    settledAtStart, \* settledAtStart[i]: promises settled when work i began
    file,         \* the shared file of test execute.02 (<<>>: no file)
    seen,         \* seen[i]: what the file check of work i found
    parentOf,     \* parentOf[i]: the work whose body called execute of i
    awaiting,     \* awaiting[i]: the item whose promise body i awaits
    other         \* a second Synchronized instance, as a record like St

vars == <<queue, isRunning, calls, kind, invoked, inFlight, workResult,
          resumable, promise, settles, startOrder, settleOrder, starter,
          atCall, busy, sawBusy, settledAtShift, settledAtStart, file, seen,
          parentOf, awaiting, other>>

\* The state as one record, for the operators that model the methods.
St ==
    [queue |-> queue, isRunning |-> isRunning, calls |-> calls, kind |-> kind,
     invoked |-> invoked, inFlight |-> inFlight, workResult |-> workResult,
     resumable |-> resumable, promise |-> promise, settles |-> settles,
     startOrder |-> startOrder, settleOrder |-> settleOrder,
     starter |-> starter, atCall |-> atCall, busy |-> busy,
     sawBusy |-> sawBusy, settledAtShift |-> settledAtShift,
     settledAtStart |-> settledAtStart, file |-> file, seen |-> seen,
     parentOf |-> parentOf, awaiting |-> awaiting]

\* The next state of this instance is the record s a method returned.
ApplyThis(s) ==
    /\ queue' = s.queue
    /\ isRunning' = s.isRunning
    /\ calls' = s.calls
    /\ kind' = s.kind
    /\ invoked' = s.invoked
    /\ inFlight' = s.inFlight
    /\ workResult' = s.workResult
    /\ resumable' = s.resumable
    /\ promise' = s.promise
    /\ settles' = s.settles
    /\ startOrder' = s.startOrder
    /\ settleOrder' = s.settleOrder
    /\ starter' = s.starter
    /\ atCall' = s.atCall
    /\ busy' = s.busy
    /\ sawBusy' = s.sawBusy
    /\ settledAtShift' = s.settledAtShift
    /\ settledAtStart' = s.settledAtStart
    /\ file' = s.file
    /\ seen' = s.seen
    /\ parentOf' = s.parentOf
    /\ awaiting' = s.awaiting

\* A method of this instance returned s; the other instance is untouched.
Apply(s) ==
    /\ ApplyThis(s)
    /\ other' = other

NotCalled == [running |-> FALSE, ahead |-> 0, settling |-> FALSE]

\* new Synchronized(), as a record: empty queue, isRunning false.
NewInstance ==
    [queue |-> <<>>, isRunning |-> FALSE, calls |-> 0,
     kind |-> [i \in Items |-> "async"],
     invoked |-> [i \in Items |-> 0],
     inFlight |-> {},
     workResult |-> [i \in Items |-> Pending],
     resumable |-> {},
     promise |-> [i \in Items |-> Pending],
     settles |-> [i \in Items |-> 0],
     startOrder |-> <<>>, settleOrder |-> <<>>,
     starter |-> [i \in Items |-> NoCtx],
     atCall |-> [i \in Items |-> NotCalled],
     busy |-> FALSE, sawBusy |-> {},
     settledAtShift |-> [i \in Items |-> {}],
     settledAtStart |-> [i \in Items |-> {}],
     file |-> <<>>,
     seen |-> [i \in Items |-> "unread"],
     parentOf |-> [i \in Items |-> 0],
     awaiting |-> [i \in Items |-> 0]]

\* constructor: empty queue, isRunning false.
Init ==
    /\ queue = <<>>
    /\ isRunning = FALSE
    /\ calls = 0
    /\ kind = [i \in Items |-> "async"]
    /\ invoked = [i \in Items |-> 0]
    /\ inFlight = {}
    /\ workResult = [i \in Items |-> Pending]
    /\ resumable = {}
    /\ promise = [i \in Items |-> Pending]
    /\ settles = [i \in Items |-> 0]
    /\ startOrder = <<>>
    /\ settleOrder = <<>>
    /\ starter = [i \in Items |-> NoCtx]
    /\ atCall = [i \in Items |-> NotCalled]
    /\ busy = FALSE
    /\ sawBusy = {}
    /\ settledAtShift = [i \in Items |-> {}]
    /\ settledAtStart = [i \in Items |-> {}]
    /\ file = <<>>
    /\ seen = [i \in Items |-> "unread"]
    /\ parentOf = [i \in Items |-> 0]
    /\ awaiting = [i \in Items |-> 0]
    /\ other = NewInstance

\* A method works on the state it is called in: each operator below binds
\* its argument s0 once, as the value s, and yields the one state it leaves.
RECURSIVE ProcessQueue(_, _)
RECURSIVE WrapperStart(_, _, _)
RECURSIVE WrapperSettle(_, _, _)
RECURSIVE Execute(_, _, _)

\* The items whose promise has been resolved or rejected.
SettledIn(s) == {j \in Items : s.promise[j] # Pending}

\* A work body calls execute() on the instance that runs it, as the next
\* item with an asynchronous work, and awaits the returned promise or not.
BodyCalls(s0, p, wait) ==
    CHOOSE r \in {(
        LET c == s.calls + 1
        IN  [Execute(s, c, "async") EXCEPT !.parentOf[c] = p,
                                           !.awaiting[p] = IF wait THEN c ELSE 0]
        ) : s \in {s0}} : TRUE

\* asyncFunction() of item i, called on the stack ctx: the body notes the
\* shared flag; an async body sets it and suspends, a throwing one throws.
\* An appending body starts its file check and suspends.  A nesting body
\* calls execute() before it suspends (when the model has a call left).
InvokeWork(s0, i, ctx) ==
    CHOOSE r \in {(
        LET s1 == [s EXCEPT !.invoked[i] = @ + 1,
                            !.startOrder = Append(@, i),
                            !.starter[i] = ctx,
                            !.settledAtStart[i] = SettledIn(s),
                            !.sawBusy = IF s.busy THEN @ \cup {i} ELSE @]
            s2 == [s1 EXCEPT !.busy = TRUE, !.inFlight = @ \cup {i}]
        IN  CASE s.kind[i] = "throws" ->
                    [s1 EXCEPT !.workResult[i] = Rejected(Err(i))]
              [] s.kind[i] = "append" ->
                    [s1 EXCEPT !.inFlight = @ \cup {i}]
              [] s.kind[i] \in {"nest", "nestAwait"} /\ s.calls < MaxItems ->
                    BodyCalls(s2, i, s.kind[i] = "nestAwait")
              [] OTHER -> s2
        ) : s \in {s0}} : TRUE

\* Mutant of SettlePromise: the failure of the work is swallowed and the
\* promise resolved without a value.
SettlePromiseSwallows(s0, i) ==
    CHOOSE r \in {(
        [s EXCEPT !.promise[i] = IF @ # Pending THEN @
                                 ELSE IF s.workResult[i][1] = "rejected"
                                      THEN Resolved(0) ELSE s.workResult[i],
                  !.settles[i] = @ + 1,
                  !.settleOrder = Append(@, i)]
        ) : s \in {s0}} : TRUE

\* resolve(result) / reject(error) of item i: the promise takes the outcome
\* of the work unless it is already settled.
SettlePromise(s0, i) ==
    CHOOSE r \in {(
        [s EXCEPT !.promise[i] = IF @ = Pending THEN s.workResult[i] ELSE @,
                  !.settles[i] = @ + 1,
                  !.settleOrder = Append(@, i)]
        ) : s \in {s0}} : TRUE

\* Mutant of WrapperSettle: processQueue() is not called after the work.
WrapperSettleStops(s0, i, ctx) ==
    CHOOSE r \in {(
        SettlePromise(s, i)
        ) : s \in {s0}} : TRUE

\* Mutant of WrapperSettle: the flag is cleared after every work and the
\* next item is left to the next execute() call.
WrapperSettleClearsFlag(s0, i, ctx) ==
    CHOOSE r \in {(
        [SettlePromise(s, i) EXCEPT !.isRunning = FALSE]
        ) : s \in {s0}} : TRUE

\* Mutant of WrapperSettle: processQueue() is called in the try block only,
\* so a failing work ends the drain.
WrapperSettleAbortsOnError(s0, i, ctx) ==
    CHOOSE r \in {(
        IF s.workResult[i][1] = "rejected"
        THEN SettlePromise(s, i)
        ELSE ProcessQueue(SettlePromise(s, i), ctx)
        ) : s \in {s0}} : TRUE

\* Mutant of WrapperSettle: processQueue() is called before resolve/reject.
WrapperSettleHandsOffFirst(s0, i, ctx) ==
    CHOOSE r \in {(
        SettlePromise(ProcessQueue(s, ctx), i)
        ) : s \in {s0}} : TRUE

\* The wrapper after `await asyncFunction()`: resolve or reject, then
\* this.processQueue().
WrapperSettle(s0, i, ctx) ==
    CHOOSE r \in {(
        ProcessQueue(SettlePromise(s, i), ctx)
        ) : s \in {s0}} : TRUE

\* The wrapper from its call to its await: it calls asyncFunction(); a
\* synchronous throw is caught at once, otherwise the wrapper suspends.
WrapperStart(s0, i, ctx) ==
    CHOOSE r \in {(
        LET s1 == InvokeWork(s, i, ctx)
        IN  IF s.kind[i] = "throws" THEN WrapperSettle(s1, i, ctx) ELSE s1
        ) : s \in {s0}} : TRUE

\* Mutant of ProcessQueue: pop() instead of shift().
ProcessQueuePopsLast(s0, ctx) ==
    CHOOSE r \in {(
        IF Len(s.queue) # 0
        THEN LET fn == s.queue[Len(s.queue)]
             IN  WrapperStart([s EXCEPT !.isRunning = TRUE,
                                        !.queue = SubSeq(@, 1, Len(@) - 1),
                                        !.settledAtShift[fn] = SettledIn(s)],
                              fn, ctx)
        ELSE [s EXCEPT !.isRunning = FALSE]
        ) : s \in {s0}} : TRUE

\* Mutant of ProcessQueue: shift() is called twice; the first head is
\* dropped, and nothing is called when only one wrapper was queued.
ProcessQueueShiftsTwice(s0, ctx) ==
    CHOOSE r \in {(
        IF Len(s.queue) >= 2
        THEN LET fn == s.queue[2]
             IN  WrapperStart([s EXCEPT !.isRunning = TRUE,
                                        !.queue = Tail(Tail(@)),
                                        !.settledAtShift[fn] = SettledIn(s)],
                              fn, ctx)
        ELSE IF Len(s.queue) = 1
             THEN [s EXCEPT !.isRunning = TRUE, !.queue = <<>>]
             ELSE [s EXCEPT !.isRunning = FALSE]
        ) : s \in {s0}} : TRUE

\* Mutant of ProcessQueue: the flag is not cleared on an empty queue.
ProcessQueueKeepsFlag(s0, ctx) ==
    CHOOSE r \in {(
        IF Len(s.queue) # 0
        THEN LET fn == Head(s.queue)
             IN  WrapperStart([s EXCEPT !.isRunning = TRUE, !.queue = Tail(@),
                                        !.settledAtShift[fn] = SettledIn(s)],
                              fn, ctx)
        ELSE s
        ) : s \in {s0}} : TRUE

\* Mutant of ProcessQueue: the flag is set after fn() has been called.
ProcessQueueSetsFlagLate(s0, ctx) ==
    CHOOSE r \in {(
        IF Len(s.queue) # 0
        THEN LET fn == Head(s.queue)
             IN  [WrapperStart([s EXCEPT !.queue = Tail(@),
                                         !.settledAtShift[fn] = SettledIn(s)],
                               fn, ctx) EXCEPT !.isRunning = TRUE]
        ELSE [s EXCEPT !.isRunning = FALSE]
        ) : s \in {s0}} : TRUE

\* processQueue(): with a non-empty queue set the flag, shift the head and
\* call it; with an empty queue clear the flag.
ProcessQueue(s0, ctx) ==
    CHOOSE r \in {(
        IF Len(s.queue) # 0
        THEN LET fn == Head(s.queue)
             IN  WrapperStart([s EXCEPT !.isRunning = TRUE, !.queue = Tail(@),
                                        !.settledAtShift[fn] = SettledIn(s)],
                              fn, ctx)
        ELSE [s EXCEPT !.isRunning = FALSE]
        ) : s \in {s0}} : TRUE

\* What execute() records and pushes before it looks at the flag.
Pushed(s0, i, k) ==
    CHOOSE r \in {(
        [s EXCEPT !.calls = i,
                  !.kind[i] = k,
                  !.atCall[i] = [running |-> s.isRunning,
                                 ahead |-> Len(s.queue),
                                 settling |-> s.resumable # {}],
                  !.queue = Append(@, i)]
        ) : s \in {s0}} : TRUE

\* Mutant of Execute: processQueue() is called whatever the flag says.
ExecuteAlwaysDrains(s0, i, k) ==
    CHOOSE r \in {(
        ProcessQueue(Pushed(s, i, k), InExecute(i))
        ) : s \in {s0}} : TRUE

\* Mutant of Execute: the wrapper is only pushed, processQueue() never
\* called.
ExecuteNeverDrains(s0, i, k) ==
    CHOOSE r \in {(
        Pushed(s, i, k)
        ) : s \in {s0}} : TRUE

\* Mutant of Execute: unshift() instead of push().
ExecuteUnshifts(s0, i, k) ==
    CHOOSE r \in {(
        LET s1 == [Pushed(s, i, k) EXCEPT !.queue = <<i>> \o s.queue]
        IN  IF ~s1.isRunning THEN ProcessQueue(s1, InExecute(i)) ELSE s1
        ) : s \in {s0}} : TRUE

\* execute(asyncFunction) as item i with a work of kind k: push the
\* wrapper, and call processQueue() if the flag is clear.
Execute(s0, i, k) ==
    CHOOSE r \in {(
        LET s1 == Pushed(s, i, k)
        IN  IF ~s1.isRunning THEN ProcessQueue(s1, InExecute(i)) ELSE s1
        ) : s \in {s0}} : TRUE

\* Whether the suspended body of item i can resume and finish: never for a
\* hanging body, after its write for an appending one, and once the
\* promise it awaits has settled for one that awaits an execute() call.
CanSettle(s, i) ==
    /\ s.kind[i] # "hangs"
    /\ s.kind[i] = "append" => s.seen[i] = "written"
    /\ s.awaiting[i] # 0 => s.promise[s.awaiting[i]] # Pending

\* fs.promises.access of the appending body of item i completes.
ReadFile(s, i) ==
    [s EXCEPT !.seen[i] = IF s.file = <<>> THEN "absent" ELSE "exists"]

\* The write of the appending body of item i completes: appendFile if its
\* check found the file, writeFile (create or overwrite) if not.
WriteFile(s, i) ==
    [s EXCEPT !.file = IF s.seen[i] = "exists" THEN Append(@, i) ELSE <<i>>,
              !.seen[i] = "written"]

\* The body of an in-flight work resumes: it clears the shared flag (an
\* appending body has none) and returns or throws, which settles the
\* promise the wrapper awaits.
FinishWork(s0, i, ok) ==
    CHOOSE r \in {(
        [s EXCEPT !.busy = IF s.kind[i] = "append" THEN @ ELSE FALSE,
                  !.workResult[i] = IF ok THEN Resolved(Val(i))
                                    ELSE Rejected(Err(i)),
                  !.inFlight = @ \ {i},
                  !.resumable = @ \cup {i}]
        ) : s \in {s0}} : TRUE

\* The wrapper of item i resumes after its await.
Continue(s0, i) ==
    CHOOSE r \in {(
        WrapperSettle([s EXCEPT !.resumable = @ \ {i}], i, InWrapper(i))
        ) : s \in {s0}} : TRUE

ExecuteCall ==
    /\ calls < MaxItems
    /\ \E k \in Kinds : \E s \in {Execute(St, calls + 1, k)} : Apply(s)

WorkSettles ==
    \E i \in inFlight : \E ok \in BOOLEAN :
        /\ CanSettle(St, i)
        /\ \E s \in {FinishWork(St, i, ok)} : Apply(s)

WrapperContinue ==
    \E i \in resumable : \E s \in {Continue(St, i)} : Apply(s)

Next ==
    \/ ExecuteCall
    \/ WorkSettles
    \/ WrapperContinue

Spec == Init /\ [][Next]_vars

\* The scheduling the liveness claims assume: a started work eventually
\* settles, and a pending continuation of a wrapper eventually runs.  No
\* fairness on ExecuteCall: callers may stop submitting.
FairSpec == Spec /\ WF_vars(WorkSettles) /\ WF_vars(WrapperContinue)

\* execute() with a work that settles later or never.
ExecuteHang ==
    /\ calls < MaxItems
    /\ \E k \in HangKinds : \E s \in {Execute(St, calls + 1, k)} : Apply(s)

NextHang ==
    \/ ExecuteHang
    \/ WorkSettles
    \/ WrapperContinue

\* The instance with work bodies that may never settle.
SpecHang == Init /\ [][NextHang]_vars

\* execute() with a work that checks the shared file and writes its number.
ExecuteAppend ==
    /\ calls < MaxItems
    /\ \E s \in {Execute(St, calls + 1, "append")} : Apply(s)

\* The file check of an appending work in flight completes.
WorkReads ==
    \E i \in inFlight :
        /\ kind[i] = "append"
        /\ seen[i] = "unread"
        /\ \E s \in {ReadFile(St, i)} : Apply(s)

\* The write of an appending work in flight completes.
WorkWrites ==
    \E i \in inFlight :
        /\ kind[i] = "append"
        /\ seen[i] \in {"absent", "exists"}
        /\ \E s \in {WriteFile(St, i)} : Apply(s)

\* The body of an appending work returns after its write.
WorkReturns ==
    \E i \in inFlight :
        /\ CanSettle(St, i)
        /\ \E s \in {FinishWork(St, i, TRUE)} : Apply(s)

NextFile ==
    \/ ExecuteAppend
    \/ WorkReads
    \/ WorkWrites
    \/ WorkReturns
    \/ WrapperContinue

\* The instance with the check-then-write works of test execute.02.
SpecFile == Init /\ [][NextFile]_vars

\* execute() with a work that may call execute() on this instance in its
\* first synchronous part.
ExecuteNesting ==
    /\ calls < MaxItems
    /\ \E k \in NestKinds : \E s \in {Execute(St, calls + 1, k)} : Apply(s)

\* The body of a work in flight resumes, calls execute() on this instance,
\* and suspends again, awaiting the returned promise or not.
NestedCall ==
    /\ calls < MaxItems
    /\ \E p \in inFlight : \E wait \in BOOLEAN :
          /\ awaiting[p] = 0
          /\ \E s \in {BodyCalls(St, p, wait)} : Apply(s)

NextNested ==
    \/ ExecuteNesting
    \/ NestedCall
    \/ WorkSettles
    \/ WrapperContinue

\* The instance with work bodies that submit to it.
SpecNested == Init /\ [][NextNested]_vars

\* Two instances: "a" is this one (the variables), "b" the other.
Instances == {"a", "b"}
World == [a |-> St, b |-> other]
Limit(self) == IF self = "a" THEN MaxEach ELSE MaxOther

ApplyWorld(w) ==
    /\ ApplyThis(w.a)
    /\ other' = w.b

\* Mutant of ExecuteOn: the flag is static, shared by all instances.
ExecuteOnShared(w, self, k) ==
    LET peer == IF self = "a" THEN "b" ELSE "a"
        r == Execute(w[self], w[self].calls + 1, k)
    IN  [w EXCEPT ![self] = r, ![peer].isRunning = r.isRunning]

\* The methods and continuations of instance self: they read and write the
\* fields of `this` only.
ExecuteOn(w, self, k) ==
    [w EXCEPT ![self] = Execute(w[self], w[self].calls + 1, k)]

FinishWorkOn(w, self, i, ok) ==
    [w EXCEPT ![self] = FinishWork(w[self], i, ok)]

ContinueOn(w, self, i) ==
    [w EXCEPT ![self] = Continue(w[self], i)]

ExecuteEither ==
    \E self \in Instances : \E k \in Kinds :
        /\ World[self].calls < Limit(self)
        /\ \E w \in {ExecuteOn(World, self, k)} : ApplyWorld(w)

SettlesEither ==
    \E self \in Instances : \E i \in World[self].inFlight :
        \E ok \in BOOLEAN :
            /\ CanSettle(World[self], i)
            /\ \E w \in {FinishWorkOn(World, self, i, ok)} : ApplyWorld(w)

ContinueEither ==
    \E self \in Instances : \E i \in World[self].resumable :
        \E w \in {ContinueOn(World, self, i)} : ApplyWorld(w)

NextTwo ==
    \/ ExecuteEither
    \/ SettlesEither
    \/ ContinueEither

\* Two Synchronized instances used side by side.
SpecTwo == Init /\ [][NextTwo]_vars

Called == 1..calls
Range(q) == {q[n] : n \in DOMAIN q}
IsRejected(p) == p[1] = "rejected"
IsResolved(p) == p[1] = "resolved"
Idle == queue = <<>> /\ ~isRunning

\* C1: mutual exclusion.  In every reachable state at most one work body is
\* in flight (started and not yet settled), and no work body that tests the
\* shared flag on entry, sets it, suspends and clears it on exit has found it
\* set on entry.
C1_MutualExclusion ==
    /\ Cardinality(inFlight) <= 1
    /\ sawBusy = {}

\* C1 witness: a second work is in flight, started after the first one
\* cleared the flag, while a third waits in the queue.
C1_Witness ==
    /\ 2 \in inFlight
    /\ kind[1] = "async"
    /\ promise[1] # Pending
    /\ Len(queue) > 0
    /\ busy

\* C2: FIFO start order.  Work bodies begin in the order of their execute()
\* calls: the start order is increasing in the call number, and a work has
\* begun only if the work of every earlier call has begun.
C2_FifoStart ==
    /\ \A a, b \in DOMAIN startOrder : a < b => startOrder[a] < startOrder[b]
    /\ \A j \in Range(startOrder) : \A i \in 1..(j - 1) : i \in Range(startOrder)

\* C2 witness: the second and third call were queued together behind the
\* first, and all three works have begun.
C2_Witness ==
    /\ calls >= 3
    /\ atCall[2].running
    /\ atCall[3].ahead = 1
    /\ startOrder = <<1, 2, 3>>

\* C3: liveness.  Under FairSpec every work submitted through execute()
\* eventually begins and its promise eventually settles.
C3_Liveness ==
    \A i \in Items : (calls >= i) ~> (invoked[i] >= 1 /\ promise[i] # Pending)

\* C3 witness: an item submitted after the last in-flight work settled and
\* before its wrapper cleared the flag (the queue was empty: the instance was
\* about to become idle) has begun and its promise has settled.
C3_Witness ==
    \E i \in Called :
        /\ atCall[i].settling
        /\ atCall[i].ahead = 0
        /\ invoked[i] = 1
        /\ promise[i] # Pending

\* C4: no lost item at the idle boundary.  Between atomic steps a non-empty
\* queue implies isRunning, with a work in flight or a wrapper continuation
\* pending that will call processQueue(); an item submitted while the flag
\* was set is started by the drain chain (a wrapper continuation), an item
\* submitted with the flag clear by its own execute() call.
C4_NoLostItem ==
    /\ Len(queue) > 0 => isRunning /\ (inFlight \cup resumable) # {}
    /\ \A i \in Called :
        /\ atCall[i].running /\ invoked[i] >= 1 => starter[i][1] = "wrapper"
        /\ ~atCall[i].running => starter[i] = InExecute(i)

\* C4 witness: one item was submitted in the gap between the settling of
\* the last work and the clearing of the flag and was started by the
\* wrapper continuation of its predecessor; a later item was submitted after
\* the flag was cleared and started a new drain.
C4_Witness ==
    \E i, j \in Called :
        /\ 1 < i /\ i < j
        /\ atCall[i].settling /\ atCall[i].ahead = 0
        /\ starter[i] = InWrapper(i - 1)
        /\ ~atCall[j].running
        /\ starter[j] = InExecute(j)

\* C5: exactly once, safety half.  Every work function is invoked at most
\* once, an item that has left the queue has been invoked, and there are
\* never more invocations than execute() calls.
C5_AtMostOnce ==
    /\ \A i \in Items : invoked[i] <= 1
    /\ \A i \in Called : i \notin Range(queue) => invoked[i] >= 1
    /\ \A i \in Items \ Called : invoked[i] = 0
    /\ Len(startOrder) <= calls

\* C5 witness: all submitted works ran, each once, some of them out of the
\* queue.
C5_Witness ==
    /\ calls >= 3
    /\ \A i \in Called : invoked[i] = 1
    /\ \E i \in Called : atCall[i].ahead >= 1
    /\ queue = <<>>

\* C6: result transparency.  resolve/reject is called at most once per
\* item, only after the work has settled, and the promise holds the outcome
\* of its own work: the value it resolved with or the error it rejected
\* with.
C6_Transparency ==
    \A i \in Items :
        /\ settles[i] <= 1
        /\ promise[i] # Pending =>
              /\ settles[i] = 1
              /\ i \notin inFlight
              /\ workResult[i] \in {Resolved(Val(i)), Rejected(Err(i))}
              /\ promise[i] = workResult[i]

\* C6 witness: one promise resolved with its work's value and another
\* rejected with the error of its asynchronous work.
C6_Witness ==
    \E i, j \in Called :
        /\ promise[i] = Resolved(Val(i))
        /\ kind[j] = "async"
        /\ promise[j] = Rejected(Err(j))

\* C7: error isolation.  A promise is rejected only if its own work failed
\* (a work that succeeded never has its promise rejected, whatever failed
\* before it), and once the promise of a failed work is rejected the next
\* submitted item has been started, next in FIFO order.
C7_ErrorIsolation ==
    \A i \in Called :
        /\ IsRejected(promise[i]) => IsRejected(workResult[i])
        /\ IsResolved(workResult[i]) => ~IsRejected(promise[i])
        /\ IsRejected(promise[i]) /\ i < calls =>
              /\ invoked[i + 1] = 1
              /\ Len(startOrder) >= i + 1
              /\ startOrder[i + 1] = i + 1

\* C7 witness: a work failed with another item queued behind it, and that
\* item ran and resolved with its own value.
C7_Witness ==
    \E i \in Called :
        /\ i < calls
        /\ IsRejected(promise[i])
        /\ atCall[i + 1].running
        /\ promise[i + 1] = Resolved(Val(i + 1))

\* C8: usable after failure.  When a work has failed and nothing was
\* submitted after it, the instance is idle once its wrapper has rejected
\* the promise; an execute() call made on the idle instance after the
\* failure runs its work, which is in flight or has settled with its own
\* outcome.
C8_UsableAfterFailure ==
    \A i \in Called :
        IsRejected(promise[i]) =>
            /\ i = calls => Idle /\ inFlight = {} /\ resumable = {}
            /\ i < calls /\ ~atCall[i + 1].running =>
                  /\ invoked[i + 1] = 1
                  /\ \/ i + 1 \in inFlight
                     \/ workResult[i + 1] \in {Resolved(Val(i + 1)),
                                               Rejected(Err(i + 1))}

\* C8 witness: a work failed alone, the instance went idle, and the next
\* execute() call ran its work to a resolved promise.
C8_Witness ==
    \E i \in Called :
        /\ i < calls
        /\ IsRejected(promise[i])
        /\ ~atCall[i + 1].running
        /\ atCall[i + 1].ahead = 0
        /\ promise[i + 1] = Resolved(Val(i + 1))

\* C9 as stated: when an execute() call made on an idle instance returns,
\* the submitted work body has not begun.
C9_Original ==
    [][calls' = calls + 1 /\ ~isRunning => invoked'[calls'] = 0]_vars

\* C9 amended: an execute() call made on an idle instance calls the work
\* function itself, through processQueue() and the wrapper, before it
\* returns; it does not wait for the work: when it returns an asynchronous
\* work is in flight and the promise pending.  A call made while isRunning
\* is set only appends its item and starts nothing.
C9_StartsInCall ==
    [][calls' = calls + 1 =>
          IF ~isRunning
          THEN /\ invoked'[calls'] = 1
               /\ starter'[calls'] = InExecute(calls')
               /\ kind'[calls'] = "async" =>
                     calls' \in inFlight' /\ promise'[calls'] = Pending
          ELSE /\ invoked' = invoked
               /\ queue' = Append(queue, calls')
               /\ inFlight' = inFlight]_vars

\* C9 witness: a work submitted to an idle instance is in flight, called
\* from the stack of its own execute() call, its promise pending.
C9_Witness ==
    \E i \in Called :
        /\ ~atCall[i].running
        /\ starter[i] = InExecute(i)
        /\ i \in inFlight
        /\ promise[i] = Pending

\* C10: completion order.  Promises settle in the order of their execute()
\* calls: the order of the resolve/reject calls is increasing in the call
\* number, and a promise is settled only if that of every earlier call is.
C10_CompletionOrder ==
    /\ \A a, b \in DOMAIN settleOrder : a < b => settleOrder[a] < settleOrder[b]
    /\ \A j \in Called : promise[j] # Pending =>
          \A i \in 1..(j - 1) : promise[i] # Pending

\* C10 witness: three promises settled in call order with different
\* outcomes, the later ones submitted while the first was running.
C10_Witness ==
    /\ settleOrder = <<1, 2, 3>>
    /\ atCall[2].running
    /\ atCall[3].running
    /\ IsResolved(promise[1])
    /\ IsRejected(promise[2])
    /\ IsResolved(promise[3])


\* No work in flight, no wrapper continuation pending, empty queue, flag
\* clear: the state the constructor leaves.
Quiet == Idle /\ inFlight = {} /\ resumable = {}

\* The items whose wrapper has been shifted and has not yet called
\* processQueue(): the work is in flight, or has settled with the wrapper
\* continuation pending.
Draining == inFlight \cup resumable

\* C14 as stated: isRunning holds exactly when one item has been shifted and
\* its wrapper has not yet called processQueue(), there is never more than
\* one such item, and isRunning is false exactly when the queue is empty and
\* no work is in flight (started and not yet settled).
C14_Original ==
    /\ isRunning <=> Cardinality(Draining) = 1
    /\ Cardinality(Draining) <= 1
    /\ ~isRunning <=> (queue = <<>> /\ inFlight = {})

\* C14 amended: isRunning holds exactly when one item has been shifted and
\* its wrapper has not yet called processQueue(), there is never more than
\* one such item, and isRunning is false exactly when the queue is empty, no
\* work is in flight and no settled work waits for its wrapper to continue.
C14_FlagMeaning ==
    /\ isRunning <=> Cardinality(Draining) = 1
    /\ Cardinality(Draining) <= 1
    /\ ~isRunning <=> (queue = <<>> /\ inFlight = {} /\ resumable = {})

\* C14 witness: the last work has settled and its wrapper has not continued:
\* the queue is empty and no work is in flight, yet isRunning is set.
C14_Witness ==
    /\ queue = <<>>
    /\ inFlight = {}
    /\ resumable # {}
    /\ isRunning

\* The queue as execute() leaves it in a step, before any shift.
QueueAfterPush == IF calls' = calls + 1 THEN Append(queue, calls') ELSE queue
Started == Len(startOrder') - Len(startOrder)
Completed == Len(settleOrder') - Len(settleOrder)

\* C15: submit while draining only appends.  An execute() call that finds
\* isRunning set appends its item at the tail of the queue and changes
\* nothing else.  In every step the queue loses only head items, each to a
\* work started in that step, in queue order, and every shift follows a
\* completed work except the one of an execute() call on a clear flag.
C15_SubmitOnlyAppends ==
    [][/\ calls' = calls + 1 /\ isRunning =>
            /\ queue' = Append(queue, calls')
            /\ isRunning'
            /\ UNCHANGED <<invoked, inFlight, workResult, resumable, promise,
                           settles, startOrder, settleOrder, starter, busy,
                           sawBusy>>
       /\ Started >= 0
       /\ Started <= Len(QueueAfterPush)
       /\ queue' = SubSeq(QueueAfterPush, Started + 1, Len(QueueAfterPush))
       /\ SubSeq(startOrder', Len(startOrder) + 1, Len(startOrder'))
             = SubSeq(QueueAfterPush, 1, Started)
       /\ Started <= Completed
                       + (IF calls' = calls + 1 /\ ~isRunning THEN 1 ELSE 0)
      ]_vars

\* C15 witness: two items were appended behind a work in flight and wait in
\* call order.
C15_Witness ==
    /\ 1 \in inFlight
    /\ atCall[2].running
    /\ atCall[3].running
    /\ queue = <<2, 3>>
    /\ isRunning

\* C16: return to idle.  Under FairSpec (the works submitted settle, and
\* the model submits finitely many) the instance ends idle for good; the
\* flag is cleared only in the step of a wrapper continuation that leaves
\* the queue empty; an idle instance changes only by an execute() call.
C16_ReturnToIdle ==
    /\ <>[]Quiet
    /\ [][isRunning /\ ~isRunning' =>
             queue' = <<>> /\ calls' = calls /\ Completed >= 1]_vars
    /\ [][Quiet => calls' = calls + 1]_vars

\* C16 witness: after a burst of calls, some queued behind a running work,
\* every promise has settled and the instance is idle again.
C16_Witness ==
    /\ Quiet
    /\ calls >= 2
    /\ \E i \in Called : atCall[i].ahead >= 1
    /\ \A i \in Called : promise[i] # Pending

\* C17: outcome before hand-off.  When item k+1 was shifted from the queue,
\* and when its work body began, resolve or reject of item k had already
\* been called.
C17_OutcomeBeforeHandoff ==
    \A k \in Called :
        k + 1 <= calls =>
            /\ (k + 1) \notin Range(queue) => k \in settledAtShift[k + 1]
            /\ invoked[k + 1] >= 1 => k \in settledAtStart[k + 1]

\* C17 witness: an item queued behind a running work has begun, and the
\* promise of that work was already rejected when it was shifted.
C17_Witness ==
    \E k \in Called :
        /\ k + 1 <= calls
        /\ atCall[k + 1].running
        /\ invoked[k + 1] = 1
        /\ k \in settledAtShift[k + 1]
        /\ IsRejected(promise[k])

\* C18: a work that never settles blocks the instance (SpecHang).  In a
\* step that leaves a work in flight no work starts, no promise settles,
\* isRunning stays set and the queue at most grows by the item of an
\* execute() call; a body that never settles stays in flight, and while it
\* is in flight no later item has started or has its promise settled.
C18_HangBlocks ==
    /\ [](\A i \in inFlight : kind[i] = "hangs" =>
             \A j \in Items : j > i => invoked[j] = 0 /\ promise[j] = Pending)
    /\ [][\A i \in inFlight :
             /\ kind[i] = "hangs" => i \in inFlight'
             /\ i \in inFlight' =>
                   /\ isRunning /\ isRunning'
                   /\ invoked' = invoked
                   /\ startOrder' = startOrder
                   /\ promise' = promise
                   /\ settleOrder' = settleOrder
                   /\ \/ queue' = queue
                      \/ calls' = calls + 1 /\ queue' = Append(queue, calls')
         ]_vars

\* C18 witness: a work that never settles is in flight after an earlier
\* work completed, and a later submission waits in the queue.
C18_Witness ==
    \E i \in inFlight :
        /\ kind[i] = "hangs"
        /\ i > 1
        /\ promise[i - 1] # Pending
        /\ queue = <<i + 1>>
        /\ isRunning

\* The works that have written, and the file that running the first n
\* works one after another leaves: the numbers 1..n in order.
WorksDone == {i \in Items : seen[i] = "written"}
SerialFile(n) == [m \in 1..n |-> m]

\* C11: serial equivalence of check-then-write sections (SpecFile).  With
\* works that check the file, suspend and then create it or append their
\* number, the file always holds what running the works that have written one
\* after another in submission order leaves: their numbers, each once, in
\* order; when all submitted works are done it holds 1..calls.
C11_SerialEquivalence ==
    /\ file = SerialFile(Cardinality(WorksDone))
    /\ WorksDone = 1..Cardinality(WorksDone)
    /\ (calls >= 1 /\ \A i \in Called : promise[i] # Pending) =>
          file = SerialFile(calls)

\* C11 witness: three works were submitted, the second and third queued
\* together behind the first, and all are done.
C11_Witness ==
    /\ calls >= 3
    /\ atCall[2].running
    /\ atCall[3].ahead = 1
    /\ \A i \in Called : promise[i] # Pending
    /\ file = <<1, 2, 3>>

\* C13: reentrant self-deadlock (SpecNested).  Once a running work body has
\* called execute() on its own instance and awaits the returned promise,
\* the outer work stays in flight and unsettled, the nested work stays in
\* the queue unstarted with its promise pending, and no item submitted
\* after the nested one starts or settles.
C13_SelfDeadlock ==
    \A p \in Items :
        awaiting[p] # 0 =>
            /\ p \in inFlight
            /\ workResult[p] = Pending
            /\ promise[p] = Pending
            /\ awaiting[p] \in Range(queue)
            /\ invoked[awaiting[p]] = 0
            /\ promise[awaiting[p]] = Pending
            /\ isRunning
            /\ \A j \in Items :
                  j > awaiting[p] => invoked[j] = 0 /\ promise[j] = Pending

\* C13 witness: a work awaits its nested submission and an item submitted
\* afterwards sits in the queue behind the nested one.
C13_Witness ==
    \E p \in inFlight :
        /\ awaiting[p] # 0
        /\ calls > awaiting[p]
        /\ queue = <<awaiting[p], awaiting[p] + 1>>

\* C19: a nested submit never overlaps its parent (SpecNested).  An
\* execute() call made by a running work body, in its first synchronous part
\* or later, finds isRunning set and only enqueues; the nested work begins
\* on a wrapper continuation, after its parent has settled and after the
\* promise of every earlier item has settled; no two bodies are in flight
\* together and none finds the shared flag set.
C19_NestedAfterParent ==
    /\ Cardinality(inFlight) <= 1
    /\ sawBusy = {}
    /\ \A c \in Called :
          parentOf[c] # 0 =>
              /\ atCall[c].running
              /\ invoked[c] >= 1 =>
                    /\ starter[c][1] = "wrapper"
                    /\ workResult[parentOf[c]] # Pending
                    /\ \A j \in 1..(c - 1) : j \in settledAtStart[c]

\* C19 witness: a work started by an execute() call on an idle instance
\* submitted a nested work in its first synchronous part without awaiting
\* it, and the nested work ran after the parent settled.
C19_Witness ==
    \E p, c \in Called :
        /\ kind[p] = "nest"
        /\ starter[p] = InExecute(p)
        /\ parentOf[c] = p
        /\ awaiting[p] = 0
        /\ promise[p] # Pending
        /\ invoked[c] = 1
        /\ promise[c] # Pending

\* C12: independence across instances (SpecTwo).  A step that changes the
\* other instance (a submit to it, a settlement or a drain step of it)
\* leaves this instance as it was, its queue, its flag and its start order
\* included, and the other way round; each instance runs at most one work
\* at a time and starts its works in its own call order.
C12_Independence ==
    /\ [](/\ Cardinality(inFlight) <= 1
          /\ Cardinality(other.inFlight) <= 1
          /\ \A n \in DOMAIN startOrder : startOrder[n] = n
          /\ \A n \in DOMAIN other.startOrder : other.startOrder[n] = n)
    /\ [][other' # other =>
             /\ UNCHANGED <<queue, isRunning, startOrder>>
             /\ St' = St]_vars
    /\ [][St' # St => other' = other]_vars

\* C12 witness: a work of this instance and a work of the other are in
\* flight at the same time, this instance with an item waiting.
C12_Witness ==
    /\ inFlight # {}
    /\ other.inFlight # {}
    /\ Len(queue) > 0
    /\ other.isRunning
=============================================================================
